---- MODULE Spec2Model ----
(***************************************************************************)
(* Phasic Policy Gradient (alf/algorithms/ppg_algorithm.py): the two phase *)
(* contexts of PPGAlgorithm, the scoped auxiliary-phase switch             *)
(* aux_phase_activated, the hooks the training driver calls, and the       *)
(* counter test of after_train_iter.                                       *)
(*                                                                         *)
(* A network is a reference to a parameter storage (network[ctx]) whose    *)
(* content is params[storage], so that copying values and sharing storage  *)
(* are different things.  The training driver is the environment: it calls *)
(* the hooks in any order while no hook is running.                        *)
(***************************************************************************)
EXTENDS Integers, Sequences, FiniteSets, TLC

\* ------------------------------------------------------------------ bounds
MaxCounter == 8          \* the global counter stops advancing here
MaxInterval == 4         \* aux_phase_interval is drawn from 1..MaxInterval
NumParamValues == 3      \* a network's parameters take values 0..NumParamValues-1
MaxAuxUpdates == 2       \* updates one train_from_replay_buffer call performs at most
MaxExp == 2              \* experiences the auxiliary replayer holds at most
MaxT == 3                \* time steps of a trajectory given to preprocess_experience
MaxProgress == 3         \* training progress and schedule points lie in 0..MaxProgress
MaxSchedule == 3         \* (progress, value) pairs of a schedule at most
MaxValue == 2            \* scheduled values lie in 1..MaxValue

\* ----------------------------------------------------------------- domains
Contexts == {"policy", "aux"}
Storages == {"net0", "net1"}
ParamValues == 0 .. (NumParamValues - 1)
Errors == {"E1", "E2"}
NoError == "none"
None == "None"
PPOLoss == "PPOLoss"
PPGAuxPhaseLoss == "PPGAuxPhaseLoss"
OnetimeExperienceReplayer == "aux_replayer"
shared_replay_buffer == "shared"

VARIABLES
    aux_phase_interval,     \* self._aux_phase_interval
    network,                \* context -> the storage of its _network
    params,                 \* storage -> parameter values (the state_dict)
    active_phase,           \* self._active_phase
    exp_replayer,           \* self._exp_replayer, the replayer the driver sees
    previous_exp_replayer,  \* the local of aux_phase_activated
    aux_exp,                \* experiences held by _aux_phase.exp_replayer
    global_counter,         \* alf.summary.get_global_counter()
    pc,                     \* "driver", "aux_body", "aux_unwind" or "failed"
    aux_updates,            \* updates done by the running auxiliary body
    exc,                    \* the error travelling through the scope
    raised,                 \* the error that reached the driver
    last_loss,              \* the loss of the latest optimizer update
    prev_seen,              \* counter read by the latest after_train_iter, -1 if none
    run_start,              \* first counter of the current run of +1 readings
    run_entered,            \* counters of that run at which the scope was entered
    pre_switch,             \* self._exp_replayer as it was when the scope was last entered
    last_forward,           \* the latest network_forward: hook, network, epsilon_greedy
    last_exp,               \* the experience rollout_step observed last
    shared_observed,        \* experiences PPGAlgorithm itself put into the shared replayer
    rollouts_since_consumed, \* rollout_step calls since an auxiliary update last trained
    loss_config,            \* context -> gamma and _lambda of its loss
    preprocessed,           \* the latest preprocess_experience call: phase, input, result
    scheduler,              \* a scheduler object: its configuration and its _index
    last_call,              \* the latest scheduler call: progress read and value returned
    construction            \* the latest scheduler constructor call: arguments and error

algorithmVars ==
    <<aux_phase_interval, network, params, active_phase, exp_replayer,
      previous_exp_replayer, aux_exp, global_counter, pc, aux_updates,
      exc, raised, last_loss, prev_seen, run_start, run_entered, pre_switch,
      last_forward, last_exp, shared_observed, rollouts_since_consumed>>

preprocessVars == <<loss_config, preprocessed>>

schedulerVars == <<scheduler, last_call, construction>>

vars == <<algorithmVars, preprocessVars, schedulerVars>>

\* --------------------------------------------------------- PPGPhaseContext
\* PPGPhaseContext.loss of each of the two contexts
loss(ctx) == IF ctx = "policy" THEN PPOLoss ELSE PPGAuxPhaseLoss

\* PPGPhaseContext.exp_replayer of each of the two contexts
ctx_exp_replayer(ctx) == IF ctx = "policy" THEN None ELSE OnetimeExperienceReplayer

\* the parameter values of a context's network
state_dict(ctx) == params[network[ctx]]

\* no hook has evaluated a network yet
NoForward == [hook |-> "none", net |-> "none", epsilon_greedy |-> None]

\* rollout_step has observed no experience yet
NoExperience == [untransformed |-> None, rollout_info |-> NoForward]

\* PPGPhaseContext.network_forward: the context's own network is evaluated,
\* and the action is drawn epsilon-greedily when epsilon_greedy is given
network_forward(hook, ctx, eps) ==
    [hook |-> hook, net |-> network[ctx], epsilon_greedy |-> eps]

\* a context switch that aliased the two networks instead of copying values
on_context_switch_from_aliasing(dst, src) ==
    [network |-> [network EXCEPT ![dst] = network[src]], params |-> params]

\* PPGPhaseContext.on_context_switch_from: load_state_dict copies the values
\* of the source's parameters into the destination's own storage
on_context_switch_from(dst, src) ==
    [network |-> network,
     params |-> [params EXCEPT ![network[dst]] = params[network[src]]]]

\* ---------------------------------------------------- preprocess_experience
\* the discount factor and trace decay a loss is configured with (small
\* integers stand for the real-valued settings)
LossConfigs == [gamma : {0, 1}, td_lambda : {0, 1}]

\* both losses with their settings left alike
DefaultLossConfig == [ctx \in Contexts |-> [gamma |-> 1, td_lambda |-> 1]]

StepTypes == {"MID", "LAST"}

\* one time step of a rollout: the environment's discount is 0 at the LAST
\* step of an episode and 1 before it
Steps ==
    {st \in [reward : {0, 1}, value : {0, 1}, step_type : StepTypes,
             discount : {0, 1}] :
        st.discount = (IF st.step_type = "LAST" THEN 0 ELSE 1)}

\* a PPGRolloutInfo of T time steps (one batch element), field by field
RolloutInfoOf(steps) ==
    [action |-> "action",
     action_distribution |-> "action_distribution",
     aux |-> "aux",
     value |-> [t \in 1 .. Len(steps) |-> steps[t].value],
     step_type |-> [t \in 1 .. Len(steps) |-> steps[t].step_type],
     discount |-> [t \in 1 .. Len(steps) |-> steps[t].discount],
     reward |-> [t \in 1 .. Len(steps) |-> steps[t].reward]]

Trajectories == UNION {[1 .. T -> Steps] : T \in 1 .. MaxT}

\* the trajectory the driver holds for preprocess_experience, the hook not
\* having run on it yet
Unprocessed(steps) ==
    [phase |-> None, error |-> NoError, rollout_info |-> RolloutInfoOf(steps),
     train_info |-> RolloutInfoOf(<<>>)]

\* the advantage of time step t, computed backwards from the end of the
\* trajectory; it is cut at a LAST step
RECURSIVE gae_advantage(_, _, _, _, _, _)
gae_advantage(rewards, values, step_types, discounts, td_lambda, t) ==
    IF t >= Len(values)
    THEN 0
    ELSE LET is_last == IF step_types[t] = "LAST" THEN 1 ELSE 0
             delta == rewards[t + 1] + discounts[t + 1] * values[t + 1]
                        - values[t]
         IN (1 - is_last)
              * (delta + td_lambda * discounts[t + 1]
                           * gae_advantage(rewards, values, step_types,
                                           discounts, td_lambda, t + 1))

\* value_ops.generalized_advantage_estimation with time_major=False: one
\* advantage for every time step but the last
generalized_advantage_estimation(rewards, values, step_types, discounts, td_lambda) ==
    [t \in 1 .. (Len(values) - 1) |->
        gae_advantage(rewards, values, step_types, discounts, td_lambda, t)]

\* tensor_utils.tensor_extend_zero along the time dimension
tensor_extend_zero(x) == Append(x, 0)

\* whether two tensors of these lengths along time can be added
broadcastable(a, b) == Len(a) = Len(b) \/ Len(a) = 1 \/ Len(b) = 1

\* elementwise sum along time, a length of one being broadcast
tensor_add(a, b) ==
    LET T == IF Len(a) = 1 THEN Len(b) ELSE Len(a)
    IN [t \in 1 .. T |-> (IF Len(a) = 1 THEN a[1] ELSE a[t])
                          + (IF Len(b) = 1 THEN b[1] ELSE b[t])]

\* namedtuple.absorbed: the fields of src are taken over into info
absorbed(info, src) ==
    [f \in (DOMAIN info) \cup (DOMAIN src) |->
        IF f \in DOMAIN src THEN src[f] ELSE info[f]]

\* the outcome of the hook once the advantages are known: the returns and
\* the PPGTrainInfo, or the error of adding tensors of unlike lengths
train_info_of(rollout_info, advantages) ==
    IF broadcastable(rollout_info.value, advantages)
    THEN [error |-> NoError,
          train_info |->
              absorbed([action |-> rollout_info.action,
                        rollout_action_distribution |->
                            rollout_info.action_distribution,
                        returns |-> tensor_add(rollout_info.value, advantages),
                        advantages |-> advantages],
                       rollout_info)]
    ELSE [error |-> "RuntimeError", train_info |-> RolloutInfoOf(<<>>)]

\* the advantages of a trajectory under the discount factor and the trace
\* decay of the given loss
advantages_under(l, rollout_info) ==
    LET gamma == l.gamma
        discounts == [t \in 1 .. Len(rollout_info.discount) |->
                         rollout_info.discount[t] * gamma]
        td_lambda == l.td_lambda
    IN generalized_advantage_estimation(
           rollout_info.reward, rollout_info.value, rollout_info.step_type,
           discounts, td_lambda)

\* preprocess_experience without the zero advantage of the last time step
preprocess_experience_unpadded(rollout_info) ==
    train_info_of(rollout_info,
                  advantages_under(loss_config["policy"], rollout_info))

\* preprocess_experience reading the loss of the active phase
preprocess_experience_active_loss(rollout_info) ==
    train_info_of(rollout_info,
                  tensor_extend_zero(
                      advantages_under(loss_config[active_phase], rollout_info)))

\* PPGAlgorithm.preprocess_experience: gamma and _lambda are those of the
\* policy context's loss
preprocess_experience(rollout_info) ==
    train_info_of(rollout_info,
                  tensor_extend_zero(
                      advantages_under(loss_config["policy"], rollout_info)))

\* ---------------------------------------------------------------- schedulers
\* a returned number as a fraction in lowest terms, or the error of dividing
\* by zero
ZeroDivisionError == [ok |-> FALSE, num |-> 0, den |-> 1]

RECURSIVE GCD(_, _)
GCD(a, b) == IF b = 0 THEN a ELSE GCD(b, a % b)

Abs(x) == IF x < 0 THEN -x ELSE x

\* n / d
Divide(n, d) ==
    IF d = 0
    THEN ZeroDivisionError
    ELSE LET g == GCD(Abs(n), Abs(d))
             sign == IF d < 0 THEN -1 ELSE 1
         IN [ok |-> TRUE, num |-> (sign * n) \div g, den |-> Abs(d) \div g]

Whole(v) == [ok |-> TRUE, num |-> v, den |-> 1]

\* no scheduler call has been made
NoCall == [progress |-> -1, value |-> Whole(0)]

\* StepScheduler.__init__: _index starts at 0
StepScheduler(progresses, values, warm_up_period, start) ==
    [kind |-> "StepScheduler", progresses |-> progresses, values |-> values,
     warm_up_period |-> warm_up_period, start |-> start, index |-> 0]

\* LinearScheduler.__init__: _index starts at 1
LinearScheduler(progresses, values) ==
    [kind |-> "LinearScheduler", progresses |-> progresses, values |-> values,
     warm_up_period |-> 0, start |-> 0, index |-> 1]

\* the scheduler of a run in which none is called
IdleScheduler == StepScheduler(<<1>>, <<1>>, 0, 0)

\* the progress points of a schedule, increasing
ProgressLists ==
    {ps \in UNION {[1 .. n -> 0 .. MaxProgress] : n \in 1 .. MaxSchedule} :
        \A i \in 1 .. (Len(ps) - 1) : ps[i] < ps[i + 1]}

ValueLists(n) == [1 .. n -> 1 .. MaxValue]

\* the StepScheduler objects whose construction passes the assert
StepSchedulers ==
    {sch \in [kind : {"StepScheduler"}, progresses : ProgressLists,
              values : UNION {ValueLists(n) : n \in 1 .. MaxSchedule},
              warm_up_period : 0 .. MaxProgress, start : 0 .. MaxProgress,
              index : {0}] :
        /\ Len(sch.values) = Len(sch.progresses)
        /\ sch.start + sch.warm_up_period < sch.progresses[1]}

\* the LinearScheduler objects whose construction passes the asserts
LinearSchedulers ==
    {sch \in [kind : {"LinearScheduler"}, progresses : ProgressLists,
              values : UNION {ValueLists(n) : n \in 1 .. MaxSchedule},
              warm_up_period : {0}, start : {0}, index : {1}] :
        /\ Len(sch.values) = Len(sch.progresses)
        /\ sch.progresses[1] = 0
        /\ Len(sch.progresses) >= 2}

\* the while loop of StepScheduler.__call__ (index counts from 0)
RECURSIVE step_index(_, _, _)
step_index(progresses, progress, index) ==
    IF index < Len(progresses) - 1 /\ progress >= progresses[index + 1]
    THEN step_index(progresses, progress, index + 1)
    ELSE index

\* StepScheduler.__call__: the value returned and the _index left behind
StepScheduler_call(sch, progress) ==
    IF progress < sch.start + sch.warm_up_period
    THEN LET ramp == IF progress - sch.start > 0 THEN progress - sch.start ELSE 0
         IN [value |-> Divide(sch.values[1] * ramp, sch.warm_up_period),
             index |-> sch.index]
    ELSE LET index == step_index(sch.progresses, progress, sch.index)
         IN [value |-> Whole(sch.values[index + 1]), index |-> index]

\* the while loop of LinearScheduler.__call__ (index counts from 0)
RECURSIVE linear_index(_, _, _)
linear_index(progresses, progress, index) ==
    IF index < Len(progresses) /\ progress >= progresses[index + 1]
    THEN linear_index(progresses, progress, index + 1)
    ELSE index

\* LinearScheduler.__call__: the value returned and the _index left behind;
\* (1 - w) * values[index - 1] + w * values[index] with w = n / d
LinearScheduler_call(sch, progress) ==
    LET index == linear_index(sch.progresses, progress, sch.index)
    IN IF index < Len(sch.progresses)
       THEN LET n == progress - sch.progresses[index]
                d == sch.progresses[index + 1] - sch.progresses[index]
                value == Divide((d - n) * sch.values[index]
                                  + n * sch.values[index + 1], d)
            IN [value |-> value,
                index |-> IF value.ok THEN index ELSE sch.index]
       ELSE [value |-> Whole(sch.values[index]), index |-> index - 1]

\* the progress types Scheduler.__init__ knows
ProgressTypes == {"percent", "iterations", "env_steps", "global_counter"}

\* Scheduler.__init__ accepting every progress_type
Scheduler_init_any(progress_type) == NoError

\* Scheduler.__init__: the error it raises, if any
Scheduler_init(progress_type) ==
    IF progress_type \in ProgressTypes THEN NoError ELSE "ValueError"

\* StepScheduler.__init__: the error it raises, if any; zip(*schedule) of an
\* empty schedule cannot be unpacked
StepScheduler_init(progress_type, progresses, values, warm_up_period, start) ==
    IF Scheduler_init(progress_type) # NoError
    THEN Scheduler_init(progress_type)
    ELSE IF Len(progresses) = 0
    THEN "ValueError"
    ELSE IF ~(start + warm_up_period < progresses[1])
    THEN "AssertionError"
    ELSE NoError

\* LinearScheduler.__init__: the error it raises, if any; schedule[0][0] of
\* an empty schedule is an IndexError
LinearScheduler_init(progress_type, progresses, values) ==
    IF Scheduler_init(progress_type) # NoError
    THEN Scheduler_init(progress_type)
    ELSE IF Len(progresses) = 0
    THEN "IndexError"
    ELSE IF progresses[1] # 0
    THEN "AssertionError"
    ELSE IF ~(Len(progresses) >= 2)
    THEN "AssertionError"
    ELSE NoError

\* no scheduler object exists
NoScheduler ==
    [kind |-> "none", progresses |-> <<>>, values |-> <<>>,
     warm_up_period |-> 0, start |-> 0, index |-> 0]

\* no constructor has been called
NoConstruction ==
    [kind |-> "none", progress_type |-> None, progresses |-> <<>>,
     values |-> <<>>, warm_up_period |-> 0, start |-> 0, error |-> NoError]

\* the schedules a constructor may be given: pairs of a progress and a
\* value, possibly none at all
ScheduleArgs ==
    {sa \in [progresses : ProgressLists \cup {<<>>},
             values : UNION {ValueLists(n) : n \in 0 .. MaxSchedule}] :
        Len(sa.progresses) = Len(sa.values)}

\* the scheduler as its constructor left it
constructed(sch) ==
    [sch EXCEPT !.index = IF sch.kind = "StepScheduler" THEN 0 ELSE 1]

\* ------------------------------------------------------------ PPGAlgorithm
\* PPGAlgorithm.__init__: the policy context owns the network, the auxiliary
\* context a copy() of it with the same values; the policy phase is active
AlgorithmInit ==
    /\ network = [ctx \in Contexts |-> IF ctx = "policy" THEN "net0" ELSE "net1"]
    /\ params = [s \in Storages |-> 0]
    /\ active_phase = "policy"
    /\ exp_replayer = shared_replay_buffer
    /\ previous_exp_replayer = None
    /\ aux_exp = 0
    /\ global_counter = 0
    /\ pc = "driver"
    /\ aux_updates = 0
    /\ exc = NoError
    /\ raised = NoError
    /\ last_loss = None
    /\ prev_seen = -1
    /\ run_start = -1
    /\ run_entered = {}
    /\ pre_switch = None
    /\ last_forward = NoForward
    /\ last_exp = NoExperience
    /\ shared_observed = 0
    /\ rollouts_since_consumed = 0

\* the state after construction, the losses left alike and no scheduler used
Init ==
    /\ aux_phase_interval \in 1 .. MaxInterval
    /\ AlgorithmInit
    /\ loss_config = DefaultLossConfig
    /\ preprocessed = Unprocessed(<<>>)
    /\ scheduler = IdleScheduler
    /\ last_call = NoCall
    /\ construction = NoConstruction

InScope == {"aux_body", "aux_unwind"}

\* the entry half of the scope without the copy of the policy parameters
try_block_no_resync ==
    [sw |-> [network |-> network, params |-> params],
     active_phase |-> "aux",
     previous_exp_replayer |-> exp_replayer,
     exp_replayer |-> ctx_exp_replayer("aux")]

\* the entry half of the scope without the shadowing of _exp_replayer
try_block_no_shadow ==
    [sw |-> on_context_switch_from("aux", "policy"),
     active_phase |-> "aux",
     previous_exp_replayer |-> exp_replayer,
     exp_replayer |-> exp_replayer]

\* aux_phase_activated up to its yield
try_block ==
    [sw |-> on_context_switch_from("aux", "policy"),
     active_phase |-> "aux",
     previous_exp_replayer |-> exp_replayer,
     exp_replayer |-> ctx_exp_replayer("aux")]

\* the exit half of the scope leaving _exp_replayer as the body left it
finally_block_keeps_replayer ==
    [sw |-> on_context_switch_from("policy", "aux"),
     active_phase |-> "policy",
     exp_replayer |-> exp_replayer]

\* the exit half of the scope written after the yield with no try/finally:
\* it is skipped when the body raised
cleanup_without_finally ==
    IF exc = NoError
    THEN [sw |-> on_context_switch_from("policy", "aux"),
          active_phase |-> "policy",
          exp_replayer |-> previous_exp_replayer]
    ELSE [sw |-> [network |-> network, params |-> params],
          active_phase |-> active_phase,
          exp_replayer |-> exp_replayer]

\* aux_phase_activated after its yield: the finally block
finally_block ==
    [sw |-> on_context_switch_from("policy", "aux"),
     active_phase |-> "policy",
     exp_replayer |-> previous_exp_replayer]

\* a scope that swallowed the error of its body
reraised_swallowed == NoError

\* what leaves the scope once the finally block has run: the error thrown
\* into the generator at its yield, if any
reraised == exc

\* a counter test that is one early
AuxiliaryScheduleTrigger_early(c) == (c + 1) % aux_phase_interval = 0

\* a counter test by comparison instead of remainder
AuxiliaryScheduleTrigger_threshold(c) == c >= aux_phase_interval

\* after_train_iter's test of the global counter
AuxiliaryScheduleTrigger(c) == c % aux_phase_interval = 0

\* a train_step bound to the policy network
train_step_network_policy == network["policy"]

\* train_step evaluates the network of the active phase
train_step_network == network[active_phase]

\* a calc_loss bound to the auxiliary loss
calc_loss_aux == loss("aux")

\* calc_loss evaluates the loss of the active phase
calc_loss == loss(active_phase)

\* one update of train_from_replay_buffer: train_step, calc_loss, and the
\* optimizers' step, which moves the parameters the loss was computed on
Update ==
    /\ \E v \in ParamValues \ {params[train_step_network]} :
          params' = [params EXCEPT ![train_step_network] = v]
    /\ last_forward' = [hook |-> "train_step", net |-> train_step_network,
                        epsilon_greedy |-> None]
    /\ last_loss' = calc_loss

\* a rollout_step that followed the active phase
rollout_step_context_active == active_phase

\* rollout_step calls network_forward of self._policy_phase
rollout_step_context == "policy"

\* the epsilon_greedy that __init__ stored for predict_step
predict_step_epsilon_greedy == "epsilon_greedy"

\* predict_step calls network_forward of self._active_phase
predict_step_context == active_phase

\* an observation kept with its untransformed payload
lite_time_step_raw(untransformed) == untransformed

\* _observe_for_aux_replay: inputs._replace(untransformed=())
lite_time_step(untransformed) == "()"

\* an observation put into the replayer the driver sees
observe_target_visible == exp_replayer

\* _observe_for_aux_replay observes into self._aux_phase.exp_replayer
observe_target == ctx_exp_replayer("aux")

\* a body whose updates count
aux_update_global_counter_counted == TRUE

\* the update_global_counter argument of the body's train_from_replay_buffer
aux_update_global_counter == FALSE

\* rollout_step: the policy network is evaluated and the experience goes to
\* the auxiliary replayer
RolloutStep ==
    /\ pc \in {"driver", "aux_body"}
    /\ aux_exp < MaxExp
    /\ shared_observed < MaxExp
    /\ last_forward' = network_forward("rollout_step", rollout_step_context, None)
    /\ \E untransformed \in {"()", "raw"} :
          last_exp' = [untransformed |-> lite_time_step(untransformed),
                       rollout_info |-> last_forward']
    /\ IF observe_target = OnetimeExperienceReplayer
       THEN aux_exp' = aux_exp + 1 /\ UNCHANGED shared_observed
       ELSE shared_observed' = shared_observed + 1 /\ UNCHANGED aux_exp
    /\ rollouts_since_consumed' = rollouts_since_consumed + 1
    /\ UNCHANGED <<aux_phase_interval, network, params, active_phase,
                   exp_replayer, previous_exp_replayer, global_counter, pc,
                   aux_updates, exc, raised, last_loss, prev_seen, run_start,
                   run_entered, pre_switch>>
    /\ UNCHANGED <<preprocessVars, schedulerVars>>

\* predict_step: a network is evaluated with the stored epsilon_greedy
PredictStep ==
    /\ pc \in {"driver", "aux_body"}
    /\ last_forward' = network_forward("predict_step", predict_step_context,
                                       predict_step_epsilon_greedy)
    /\ UNCHANGED <<aux_phase_interval, network, params, active_phase,
                   exp_replayer, previous_exp_replayer, aux_exp,
                   global_counter, pc, aux_updates, exc, raised, last_loss,
                   prev_seen, run_start, run_entered, pre_switch, last_exp,
                   shared_observed>>
    /\ UNCHANGED <<rollouts_since_consumed, preprocessVars, schedulerVars>>

\* one update of the driver's own train_from_replay_buffer, which counts
PolicyTrainUpdate ==
    /\ pc = "driver"
    /\ global_counter < MaxCounter
    /\ Update
    /\ global_counter' = global_counter + 1
    /\ UNCHANGED <<aux_phase_interval, network, active_phase, exp_replayer,
                   previous_exp_replayer, aux_exp, pc, aux_updates, exc,
                   raised, prev_seen, run_start, run_entered, pre_switch,
                   last_exp, shared_observed>>
    /\ UNCHANGED <<rollouts_since_consumed, preprocessVars, schedulerVars>>

\* after_train_iter up to the yield of the scope it may enter
AfterTrainIter ==
    /\ pc = "driver"
    /\ LET c == global_counter
           enter == AuxiliaryScheduleTrigger(c)
           continues == prev_seen >= 0 /\ c = prev_seen + 1
       IN /\ prev_seen' = c
          /\ run_start' = IF continues THEN run_start ELSE c
          /\ run_entered' = (IF continues THEN run_entered ELSE {})
                               \cup (IF enter THEN {c} ELSE {})
          /\ IF enter
             THEN /\ network' = try_block.sw.network
                  /\ params' = try_block.sw.params
                  /\ active_phase' = try_block.active_phase
                  /\ previous_exp_replayer' = try_block.previous_exp_replayer
                  /\ exp_replayer' = try_block.exp_replayer
                  /\ pre_switch' = exp_replayer
                  /\ pc' = "aux_body"
                  /\ aux_updates' = 0
             ELSE UNCHANGED <<network, params, active_phase,
                              previous_exp_replayer, exp_replayer, pre_switch,
                              pc, aux_updates>>
    /\ UNCHANGED <<aux_phase_interval, aux_exp, global_counter, exc, raised,
                   last_loss, last_forward, last_exp, shared_observed>>
    /\ UNCHANGED <<rollouts_since_consumed, preprocessVars, schedulerVars>>

\* one update of the body's train_from_replay_buffer(update_global_counter=
\* False): it trains on what the visible replayer holds and does not count
AuxTrainUpdate ==
    /\ pc = "aux_body"
    /\ aux_updates < MaxAuxUpdates
    /\ Update
    /\ aux_updates' = aux_updates + 1
    /\ aux_exp' = IF exp_replayer = OnetimeExperienceReplayer THEN 0 ELSE aux_exp
    /\ rollouts_since_consumed' = 0
    /\ global_counter' = IF aux_update_global_counter
                         THEN global_counter + 1
                         ELSE global_counter
    /\ UNCHANGED <<aux_phase_interval, network, active_phase, exp_replayer,
                   previous_exp_replayer, pc, exc, raised, prev_seen,
                   run_start, run_entered, pre_switch, last_exp,
                   shared_observed>>
    /\ UNCHANGED <<preprocessVars, schedulerVars>>

\* the body raises
AuxBodyRaise ==
    /\ pc = "aux_body"
    /\ \E e \in Errors : exc' = e
    /\ pc' = "aux_unwind"
    /\ UNCHANGED <<aux_phase_interval, network, params, active_phase,
                   exp_replayer, previous_exp_replayer, aux_exp,
                   global_counter, aux_updates, raised, last_loss, prev_seen,
                   run_start, run_entered, pre_switch, last_forward, last_exp,
                   shared_observed>>
    /\ UNCHANGED <<rollouts_since_consumed, preprocessVars, schedulerVars>>

\* the scope exits: the body returned, or its error unwinds through the
\* finally block and leaves after_train_iter
AuxExit ==
    /\ pc \in InScope
    /\ network' = finally_block.sw.network
    /\ params' = finally_block.sw.params
    /\ active_phase' = finally_block.active_phase
    /\ exp_replayer' = finally_block.exp_replayer
    /\ previous_exp_replayer' = None
    /\ raised' = reraised
    /\ exc' = NoError
    /\ IF pc = "aux_unwind"
       THEN pc' = "failed" /\ UNCHANGED aux_updates
       ELSE pc' = "driver" /\ aux_updates' = 0
    /\ UNCHANGED <<aux_phase_interval, aux_exp, global_counter, last_loss,
                   prev_seen, run_start, run_entered, pre_switch, last_forward,
                   last_exp, shared_observed>>
    /\ UNCHANGED <<rollouts_since_consumed, preprocessVars, schedulerVars>>

\* preprocess_experience on the driver's trajectory, in whichever phase is
\* active
PreprocessExperience ==
    /\ pc \in {"driver", "aux_body"}
    /\ LET rollout_info == preprocessed.rollout_info
           outcome == preprocess_experience(rollout_info)
       IN preprocessed' = [phase |-> active_phase,
                           error |-> outcome.error,
                           rollout_info |-> rollout_info,
                           train_info |-> outcome.train_info]
    /\ UNCHANGED <<algorithmVars, loss_config, schedulerVars>>

Next ==
    \/ RolloutStep
    \/ PredictStep
    \/ PolicyTrainUpdate
    \/ AfterTrainIter
    \/ AuxTrainUpdate
    \/ AuxBodyRaise
    \/ AuxExit

Spec == Init /\ [][Next]_vars

\* the scope is left by AuxExit, which the context manager runs as soon as
\* the body has returned or raised
LiveSpec == Spec /\ WF_vars(AuxExit)

\* the algorithm entering the auxiliary phase after every iteration, its two
\* losses configured in any way, the driver holding any trajectory and
\* preprocessing it in both phases
InitPreprocess ==
    /\ aux_phase_interval = 1
    /\ AlgorithmInit
    /\ loss_config \in [Contexts -> LossConfigs]
    /\ preprocessed \in {Unprocessed(steps) : steps \in Trajectories}
    /\ scheduler = IdleScheduler
    /\ last_call = NoCall
    /\ construction = NoConstruction

NextPreprocess ==
    \/ PreprocessExperience
    \/ AfterTrainIter
    \/ AuxExit

SpecPreprocess == InitPreprocess /\ [][NextPreprocess]_vars

\* a call of the StepScheduler at whatever progress the trainer reports
StepSchedulerCall ==
    /\ scheduler.kind = "StepScheduler"
    /\ \E progress \in 0 .. MaxProgress :
          LET r == StepScheduler_call(scheduler, progress)
          IN /\ scheduler' = [scheduler EXCEPT !.index = r.index]
             /\ last_call' = [progress |-> progress, value |-> r.value]
    /\ UNCHANGED <<algorithmVars, preprocessVars, construction>>

\* a call of the LinearScheduler at whatever progress the trainer reports
LinearSchedulerCall ==
    /\ scheduler.kind = "LinearScheduler"
    /\ \E progress \in 0 .. MaxProgress :
          LET r == LinearScheduler_call(scheduler, progress)
          IN /\ scheduler' = [scheduler EXCEPT !.index = r.index]
             /\ last_call' = [progress |-> progress, value |-> r.value]
    /\ UNCHANGED <<algorithmVars, preprocessVars, construction>>

\* after_train_iter when the copy into the auxiliary network at the top of
\* the try block raises: the finally block runs at once, with
\* previous_exp_replayer still None as line 302 left it, and the body never
\* runs.  The failed load_state_dict may or may not have copied; the copy back
\* in the finally block may succeed or raise as well, and when it raises the
\* rest of the finally block is skipped.
AfterTrainIterEntryFails ==
    /\ pc = "driver"
    /\ AuxiliaryScheduleTrigger(global_counter)
    /\ LET c == global_counter
           continues == prev_seen >= 0 /\ c = prev_seen + 1
       IN /\ prev_seen' = c
          /\ run_start' = IF continues THEN run_start ELSE c
          /\ run_entered' = (IF continues THEN run_entered ELSE {}) \cup {c}
    /\ pre_switch' = exp_replayer
    /\ \E e \in Errors, entry_copied \in BOOLEAN, exit_raises \in BOOLEAN :
          LET entered == IF entry_copied
                         THEN on_context_switch_from("aux", "policy").params
                         ELSE params
              left == [entered EXCEPT ![network["policy"]] =
                                          entered[network["aux"]]]
          IN IF exit_raises
             THEN /\ params' \in {entered, left}
                  /\ raised' \in Errors
                  /\ UNCHANGED <<active_phase, exp_replayer>>
             ELSE /\ params' = left
                  /\ raised' = e
                  /\ active_phase' = finally_block.active_phase
                  /\ exp_replayer' = previous_exp_replayer
    /\ pc' = "failed"
    /\ UNCHANGED <<aux_phase_interval, network, previous_exp_replayer, aux_exp,
                   global_counter, aux_updates, exc, last_loss, last_forward,
                   last_exp, shared_observed, rollouts_since_consumed>>
    /\ UNCHANGED <<preprocessVars, schedulerVars>>

\* training in which the entry of a scope may fail
NextEntryFailure ==
    \/ PolicyTrainUpdate
    \/ AfterTrainIter
    \/ AuxTrainUpdate
    \/ AuxExit
    \/ AfterTrainIterEntryFails

SpecEntryFailure == Init /\ [][NextEntryFailure]_vars

\* a trajectory of one time step, the last of its episode
OneStepTrajectory ==
    <<[reward |-> 1, value |-> 1, step_type |-> "LAST", discount |-> 0]>>

\* the algorithm with every hook the driver calls, preprocess_experience
\* among them; the auxiliary phase follows every iteration or every second
InitHooks ==
    /\ aux_phase_interval \in 1 .. 2
    /\ AlgorithmInit
    /\ loss_config = DefaultLossConfig
    /\ preprocessed = Unprocessed(OneStepTrajectory)
    /\ scheduler = IdleScheduler
    /\ last_call = NoCall
    /\ construction = NoConstruction

NextHooks ==
    \/ RolloutStep
    \/ PreprocessExperience
    \/ PolicyTrainUpdate
    \/ AuxTrainUpdate
    \/ PredictStep
    \/ AfterTrainIter
    \/ AuxExit

SpecHooks == InitHooks /\ [][NextHooks]_vars

\* StepScheduler(progress_type, schedule, warm_up_period, start): the object
\* exists only if __init__ raised nothing
ConstructStepScheduler ==
    /\ scheduler = NoScheduler
    /\ construction = NoConstruction
    /\ \E progress_type \in ProgressTypes \cup {"epochs"}, sa \in ScheduleArgs,
          w \in 0 .. MaxProgress, st \in 0 .. MaxProgress :
          LET error == StepScheduler_init(progress_type, sa.progresses,
                                          sa.values, w, st)
          IN /\ construction' =
                    [kind |-> "StepScheduler", progress_type |-> progress_type,
                     progresses |-> sa.progresses, values |-> sa.values,
                     warm_up_period |-> w, start |-> st, error |-> error]
             /\ scheduler' = IF error = NoError
                             THEN StepScheduler(sa.progresses, sa.values, w, st)
                             ELSE NoScheduler
    /\ UNCHANGED <<algorithmVars, preprocessVars, last_call>>

\* LinearScheduler(progress_type, schedule): the object exists only if
\* __init__ raised nothing
ConstructLinearScheduler ==
    /\ scheduler = NoScheduler
    /\ construction = NoConstruction
    /\ \E progress_type \in ProgressTypes \cup {"epochs"}, sa \in ScheduleArgs :
          LET error == LinearScheduler_init(progress_type, sa.progresses,
                                            sa.values)
          IN /\ construction' =
                    [kind |-> "LinearScheduler", progress_type |-> progress_type,
                     progresses |-> sa.progresses, values |-> sa.values,
                     warm_up_period |-> 0, start |-> 0, error |-> error]
             /\ scheduler' = IF error = NoError
                             THEN LinearScheduler(sa.progresses, sa.values)
                             ELSE NoScheduler
    /\ UNCHANGED <<algorithmVars, preprocessVars, last_call>>

\* no scheduler yet: one is constructed with any arguments and, if that
\* succeeded, called again and again
InitConstruct ==
    /\ aux_phase_interval = 1
    /\ AlgorithmInit
    /\ loss_config = DefaultLossConfig
    /\ preprocessed = Unprocessed(<<>>)
    /\ scheduler = NoScheduler
    /\ last_call = NoCall
    /\ construction = NoConstruction

NextConstruct ==
    \/ ConstructStepScheduler
    \/ ConstructLinearScheduler
    \/ StepSchedulerCall
    \/ LinearSchedulerCall

SpecConstruct == InitConstruct /\ [][NextConstruct]_vars

\* a scheduler of either class, called again and again
InitScheduler ==
    /\ aux_phase_interval = 1
    /\ AlgorithmInit
    /\ loss_config = DefaultLossConfig
    /\ preprocessed = Unprocessed(<<>>)
    /\ scheduler \in StepSchedulers \cup LinearSchedulers
    /\ last_call = NoCall
    /\ construction = NoConstruction

NextScheduler ==
    \/ StepSchedulerCall
    \/ LinearSchedulerCall

SpecScheduler == InitScheduler /\ [][NextScheduler]_vars


\* ------------------------------------------------------------------ claims
\* C1: when a scope is left, whether its body returned or raised, the active
\* phase is the policy context and _exp_replayer is what it was right before
\* the scope was entered.
C1_ScopeRestores ==
    [][(pc \in InScope /\ pc' \notin InScope)
          => (active_phase' = "policy" /\ exp_replayer' = pre_switch)]_vars

\* a scope whose body raised after an update has been left
C1_Witness ==
    /\ pc = "failed"
    /\ raised \in Errors
    /\ aux_updates > 0
    /\ active_phase = "policy"
    /\ exp_replayer = pre_switch
    /\ exp_replayer # OnetimeExperienceReplayer

\* C2: the visible replayer is the active phase's: the auxiliary context's
\* replayer while the auxiliary phase is active, the shared replay buffer
\* while the policy phase (whose own replayer is None) is.
C2_VisibleReplayerOfActivePhase ==
    /\ active_phase = "aux" => exp_replayer = ctx_exp_replayer("aux")
    /\ active_phase = "policy" =>
          (ctx_exp_replayer("policy") = None /\ exp_replayer = shared_replay_buffer)

\* the auxiliary phase is active and training on its own replayer
C2_Witness ==
    /\ pc = "aux_body"
    /\ active_phase = "aux"
    /\ aux_updates > 0
    /\ exp_replayer = OnetimeExperienceReplayer

\* C3: the policy phase is active at the start, the auxiliary phase is
\* active only while a scope is executing, never once control is back with
\* the driver (normally or by an error), and every activation of the
\* auxiliary phase is followed by a return to the policy phase.
C3_PhaseStateMachine ==
    /\ active_phase = "policy"
    /\ [](active_phase \in Contexts)
    /\ [](active_phase = "aux" => pc \in InScope)
    /\ [](pc \notin InScope => active_phase = "policy")
    /\ ((active_phase = "aux") ~> (active_phase = "policy"))

\* control is back with the driver after a scope that ran updates
C3_Witness ==
    /\ pc = "driver"
    /\ pre_switch # None
    /\ last_loss = PPGAuxPhaseLoss
    /\ active_phase = "policy"

\* C4: an error of the body reaches the driver unchanged, and only once the
\* phase and the replayer have been restored.
C4_ErrorPropagatesAfterCleanup ==
    /\ [](exc # NoError => raised = NoError)
    /\ [](raised # NoError =>
            (pc = "failed" /\ active_phase = "policy" /\ exp_replayer = pre_switch))
    /\ [][(pc = "aux_unwind" /\ pc' # "aux_unwind")
            => (pc' = "failed" /\ raised' = exc /\ exc \in Errors)]_vars
    /\ [][(pc = "aux_body" /\ pc' \notin InScope) => raised' = NoError]_vars

\* error E2 of the body has reached the driver
C4_Witness ==
    /\ pc = "failed"
    /\ raised = "E2"
    /\ active_phase = "policy"

\* C5: a call of after_train_iter enters the scope iff the counter it read
\* is a multiple of the interval, and over readings 0, 1, .., N the scope is
\* entered N \div interval + 1 times.
C5_TriggerIffMultiple ==
    /\ prev_seen >= 0 =>
          ((prev_seen \in run_entered) <=> (prev_seen % aux_phase_interval = 0))
    /\ pc \in InScope => prev_seen % aux_phase_interval = 0
    /\ (run_start = 0 /\ prev_seen >= 0) =>
          Cardinality(run_entered) = (prev_seen \div aux_phase_interval) + 1

\* the readings 0..7 with interval 3: entered at 0, 3 and 6
C5_Witness ==
    /\ aux_phase_interval = 3
    /\ run_start = 0
    /\ prev_seen = 7
    /\ run_entered = {0, 3, 6}

\* C6: the trigger is edge-triggered: over readings that repeat or jump, a
\* call enters the scope only when its reading is a multiple of the interval
\* that the counter has newly reached (once per crossing, never for a
\* multiple already read or one that was jumped over), and every reading
\* that newly reaches a multiple enters.
C6_EdgeTriggered ==
    /\ [][(pc = "driver" /\ pc' = "aux_body")
            => (global_counter % aux_phase_interval = 0
                /\ global_counter > prev_seen)]_vars
    /\ [][(pc = "driver" /\ pc' = "driver" /\ prev_seen' # prev_seen)
            => prev_seen' % aux_phase_interval # 0]_vars

\* C7: interval 4 and the readings 1, 2, .., 8: entered at 4 and at 8 only.
C7_IntervalFourEightIterations ==
    (aux_phase_interval = 4 /\ run_start = 1 /\ prev_seen <= 8) =>
        run_entered = {m \in {4, 8} : m <= prev_seen}

\* the eighth iteration is over
C7_Witness ==
    /\ aux_phase_interval = 4
    /\ run_start = 1
    /\ prev_seen = 8
    /\ pc = "driver"
    /\ run_entered = {4, 8}

\* C8: while no scope is executing, the policy network's parameters change
\* only by an update made in the policy phase on the policy loss.
C8_PolicyParamsOnlyByPolicyUpdates ==
    [][(pc \notin InScope /\ pc' \notin InScope
          /\ state_dict("policy")' # state_dict("policy"))
          => (last_loss' = PPOLoss /\ active_phase = "policy")]_vars

\* a policy update made after a scope was left
C8_Witness ==
    /\ pc = "driver"
    /\ pre_switch # None
    /\ last_loss = PPOLoss
    /\ global_counter > prev_seen
    /\ state_dict("policy") # state_dict("aux")

\* C9: a context switch makes the destination's parameters equal to the
\* source's and leaves the source's alone, and no other step changes the
\* parameters of both networks.
C9_ResyncCopiesValues ==
    /\ [][(pc = "driver" /\ pc' = "aux_body")
            => (state_dict("aux")' = state_dict("policy")
                /\ state_dict("policy")' = state_dict("policy"))]_vars
    /\ [][(pc \in InScope /\ pc' \notin InScope)
            => (state_dict("policy")' = state_dict("aux")
                /\ state_dict("aux")' = state_dict("aux"))]_vars
    /\ [][(pc' = pc)
            => (state_dict("policy")' = state_dict("policy")
                \/ state_dict("aux")' = state_dict("aux"))]_vars

\* an update after the switch moved the auxiliary network only
C9_Witness ==
    /\ pc = "aux_body"
    /\ aux_updates = 1
    /\ state_dict("aux") # state_dict("policy")

\* C10: when the body starts, the auxiliary network holds the policy
\* network's current parameters.
C10_AuxStartsFromPolicy ==
    (pc = "aux_body" /\ aux_updates = 0) =>
        state_dict("aux") = state_dict("policy")

\* a scope entered after policy updates
C10_Witness ==
    /\ pc = "aux_body"
    /\ aux_updates = 0
    /\ global_counter > 0
    /\ last_loss = PPOLoss
    /\ state_dict("policy") # 0
    /\ state_dict("aux") = state_dict("policy")

\* C11: when a scope is left, by return or by an error of the body, the
\* policy network takes the auxiliary network's parameters as the body left
\* them.
C11_ExitResyncsPolicy ==
    /\ [][(pc = "aux_body" /\ pc' = "driver")
            => state_dict("policy")' = state_dict("aux")]_vars
    /\ [][(pc = "aux_unwind" /\ pc' \notin InScope)
            => (state_dict("policy")' = state_dict("aux")
                /\ state_dict("aux")' = state_dict("aux"))]_vars
    /\ [](pc = "failed" => state_dict("policy") = state_dict("aux"))

\* the body raised after an update; no policy update was ever made, and the
\* policy network holds the updated parameters
C11_Witness ==
    /\ pc = "failed"
    /\ aux_updates > 0
    /\ global_counter = 0
    /\ state_dict("policy") # 0
    /\ state_dict("policy") = state_dict("aux")

\* C12: rollout_step evaluates the policy context's network in either phase.
C12_RolloutUsesPolicyNetwork ==
    /\ [](last_forward.hook = "rollout_step" =>
            last_forward.net = network["policy"])
    /\ [][(last_forward' # last_forward /\ last_forward'.hook = "rollout_step")
            => last_forward'.net = network["policy"]]_vars

\* rollout_step was called inside a scope whose auxiliary network had moved
\* away from the policy network
C12_Witness ==
    /\ pc = "aux_body"
    /\ active_phase = "aux"
    /\ aux_updates > 0
    /\ state_dict("aux") # state_dict("policy")
    /\ last_forward.hook = "rollout_step"
    /\ last_forward.net = network["policy"]

\* C13: predict_step evaluates the policy context's network, with the stored
\* epsilon_greedy, in either phase.
C13_PredictUsesPolicyNetwork ==
    last_forward.hook = "predict_step" =>
        (last_forward.net = network["policy"]
         /\ last_forward.epsilon_greedy = predict_step_epsilon_greedy)

\* C14: an update evaluates the policy network and the PPO loss outside a
\* scope, and the auxiliary network and the auxiliary loss inside one.
C14_TrainFollowsActivePhase ==
    [][(pc' = pc /\ (params' # params \/ last_loss' # last_loss))
          => LET ctx == IF pc \in InScope THEN "aux" ELSE "policy"
             IN /\ last_forward'.hook = "train_step"
                /\ last_forward'.net = network[ctx]
                /\ last_forward'.epsilon_greedy = None
                /\ last_loss' = loss(ctx)
                /\ active_phase = ctx]_vars

\* an update inside a scope, after updates of the policy phase
C14_Witness ==
    /\ pc = "aux_body"
    /\ aux_updates = 1
    /\ global_counter > 0
    /\ last_forward.hook = "train_step"
    /\ last_forward.net = network["aux"]
    /\ last_loss = PPGAuxPhaseLoss

\* C15: a rollout_step puts one experience, without the untransformed
\* payload and with its rollout info, into the auxiliary replayer and none
\* into the shared one, whichever replayer is visible.
C15_RolloutObservesIntoAuxReplayer ==
    [][(last_forward'.hook = "rollout_step"
          /\ <<last_forward, last_exp, aux_exp, shared_observed>>'
                # <<last_forward, last_exp, aux_exp, shared_observed>>)
          => (/\ aux_exp' = aux_exp + 1
              /\ shared_observed' = shared_observed
              /\ last_exp'.untransformed = "()"
              /\ last_exp'.rollout_info = last_forward')]_vars

\* experiences observed both while the shared and while the auxiliary
\* replayer was visible
C15_Witness ==
    /\ pc = "aux_body"
    /\ exp_replayer = OnetimeExperienceReplayer
    /\ aux_exp = 2
    /\ aux_updates = 0
    /\ shared_observed = 0
    /\ last_forward.hook = "rollout_step"
    /\ last_exp.untransformed = "()"

\* C16: the counter does not move while a scope is executing: when
\* after_train_iter returns it is the value read at its start.
C16_AuxTrainingDoesNotCount ==
    /\ [][(pc \in InScope) => (global_counter' = global_counter)]_vars
    /\ [](pc \in InScope => global_counter = prev_seen)
    /\ [][(pc \in InScope /\ pc' \notin InScope) => global_counter' = prev_seen]_vars

\* after_train_iter returned after two auxiliary updates
C16_Witness ==
    /\ pc = "failed"
    /\ aux_updates = 2
    /\ last_loss = PPGAuxPhaseLoss
    /\ prev_seen > 0
    /\ global_counter = prev_seen

\* C19: the two contexts never share parameter storage.
C19_DisjointParameters ==
    /\ network["policy"] # network["aux"]
    /\ network["policy"] \in Storages
    /\ network["aux"] \in Storages

\* after a whole scope, with a copy in each direction, the two networks hold
\* equal values in different storages
C19_Witness ==
    /\ pc = "driver"
    /\ pre_switch # None
    /\ last_loss = PPGAuxPhaseLoss
    /\ state_dict("policy") = state_dict("aux")
    /\ state_dict("policy") # 0
    /\ network["policy"] # network["aux"]

\* C17: for a trajectory of T time steps preprocess_experience returns T
\* advantages and T returns, the last advantage is zero, every return is the
\* value plus the advantage of its time step (so the last return is the last
\* value), and every field of rollout_info is found in the train info.
C17_AdvantagesAndReturns ==
    preprocessed.phase # None =>
        LET info == preprocessed.rollout_info
            out == preprocessed.train_info
            T == Len(info.value)
        IN /\ preprocessed.error = NoError
           /\ Len(out.advantages) = T
           /\ Len(out.returns) = T
           /\ out.advantages[T] = 0
           /\ \A t \in 1 .. T : out.returns[t] = info.value[t] + out.advantages[t]
           /\ out.returns[T] = info.value[T]
           /\ \A f \in DOMAIN info : f \in DOMAIN out /\ out[f] = info[f]

\* a trajectory of several steps with a nonzero advantage before the last
C17_Witness ==
    /\ preprocessed.phase # None
    /\ preprocessed.error = NoError
    /\ Len(preprocessed.rollout_info.value) >= 2
    /\ preprocessed.train_info.advantages[1] # 0
    /\ preprocessed.train_info.advantages[
           Len(preprocessed.rollout_info.value)] = 0

C20_ValueDependsOnProgressOnly ==
    last_call.progress >= 0 =>
        last_call.value =
            (IF scheduler.kind = "StepScheduler"
             THEN StepScheduler_call(constructed(scheduler), last_call.progress).value
             ELSE LinearScheduler_call(constructed(scheduler), last_call.progress).value)

\* C21: a constructor given a progress_type outside the four known ones, or
\* a LinearScheduler constructor given a schedule that does not begin at
\* progress 0 or has fewer than two pairs, raises and leaves no object; a
\* scheduler that has been called was constructed from valid arguments.
C21_ConfigurationErrorsAreFatal ==
    LET bad_type == construction.progress_type \notin ProgressTypes
        bad_linear == /\ construction.kind = "LinearScheduler"
                      /\ \/ Len(construction.progresses) < 2
                         \/ construction.progresses[1] # 0
    IN /\ (construction.kind # "none" /\ (bad_type \/ bad_linear)) =>
              (construction.error # NoError /\ scheduler = NoScheduler)
       /\ last_call.progress >= 0 =>
              (/\ construction.error = NoError
               /\ ~bad_type
               /\ ~bad_linear)

\* each kind of rejected configuration is tried
C21_Witness ==
    /\ construction.kind = "LinearScheduler"
    /\ construction.progress_type \in ProgressTypes
    /\ Len(construction.progresses) = 1
    /\ construction.progresses[1] = 0
    /\ construction.error = "AssertionError"
    /\ scheduler = NoScheduler

\* C22: outside the warm-up region a StepScheduler returns the value paired
\* with the smallest schedule progress strictly greater than the current
\* progress, and the last value when no schedule progress is greater.
C22_StepValueOfNextBreakpoint ==
    (/\ scheduler.kind = "StepScheduler"
     /\ last_call.progress >= scheduler.start + scheduler.warm_up_period) =>
        LET P == scheduler.progresses
            greater == {i \in 1 .. Len(P) : P[i] > last_call.progress}
            next == CHOOSE i \in greater : \A j \in greater : P[i] <= P[j]
        IN last_call.value =
               Whole(IF greater = {}
                     THEN scheduler.values[Len(P)]
                     ELSE scheduler.values[next])

\* C23: in the warm-up region a StepScheduler returns 0 before start and
\* values[0] * (progress - start) / warm_up_period from start on, and no call
\* at a progress >= 0 fails.
C23_WarmUpRamp ==
    (/\ scheduler.kind = "StepScheduler"
     /\ last_call.progress >= 0) =>
        /\ last_call.value.ok
        /\ last_call.progress < scheduler.start => last_call.value = Whole(0)
        /\ (/\ last_call.progress >= scheduler.start
            /\ last_call.progress < scheduler.start + scheduler.warm_up_period) =>
               last_call.value.num * scheduler.warm_up_period
                 = last_call.value.den * scheduler.values[1]
                     * (last_call.progress - scheduler.start)

\* C24: a LinearScheduler returns the last value at or beyond the last
\* schedule progress, and otherwise the linear interpolation between the
\* values of the two schedule points the current progress lies between.
C24_LinearInterpolation ==
    (/\ scheduler.kind = "LinearScheduler"
     /\ last_call.progress >= 0) =>
        LET P == scheduler.progresses
            V == scheduler.values
            x == last_call.progress
        IN IF x >= P[Len(P)]
           THEN last_call.value = Whole(V[Len(P)])
           ELSE \E i \in 2 .. Len(P) :
                   /\ P[i - 1] <= x
                   /\ x < P[i]
                   /\ last_call.value.ok
                   /\ last_call.value.num * (P[i] - P[i - 1])
                        = last_call.value.den
                            * (V[i - 1] * (P[i] - x) + V[i] * (x - P[i - 1]))

\* C25: the auxiliary replayer holds exactly one experience for each
\* rollout_step call made since an auxiliary update last trained on it (or
\* since construction); in particular it does when a scope is entered.
C25_AuxReplayerHoldsRolloutsSinceConsumed ==
    /\ [](aux_exp = rollouts_since_consumed)
    /\ [][(pc = "driver" /\ pc' = "aux_body")
            => aux_exp' = rollouts_since_consumed']_vars

\* a scope is entered a second time in a run, with the experiences of the
\* rollouts made since the earlier scope trained
C25_Witness ==
    /\ pc = "aux_body"
    /\ aux_updates = 0
    /\ Cardinality(run_entered) >= 2
    /\ params[network["aux"]] # 0
    /\ rollouts_since_consumed = MaxExp
    /\ aux_exp = MaxExp

\* C26: rollout_step, preprocess_experience, train_step with calc_loss (an
\* update) and predict_step leave the active phase and _exp_replayer as they
\* were, and so does after_train_iter when the counter is not a multiple of
\* the interval; the two change only when a scope is entered or left.
C26_PhaseChangedOnlyByScope ==
    /\ [][(RolloutStep \/ PreprocessExperience \/ PolicyTrainUpdate
             \/ AuxTrainUpdate \/ PredictStep)
            => UNCHANGED <<active_phase, exp_replayer>>]_vars
    /\ [][(pc = "driver" /\ global_counter % aux_phase_interval # 0)
            => UNCHANGED <<active_phase, exp_replayer>>]_vars
    /\ [][(active_phase' # active_phase \/ exp_replayer' # exp_replayer)
            => (\/ pc = "driver" /\ pc' = "aux_body"
                \/ pc \in InScope /\ pc' \notin InScope)]_vars

\* the hooks have run inside a scope, entered after after_train_iter had
\* passed a counter that is not a multiple of the interval
C26_Witness ==
    /\ pc = "aux_body"
    /\ active_phase = "aux"
    /\ aux_phase_interval = 2
    /\ global_counter = 2
    /\ run_start = 1
    /\ preprocessed.phase = "aux"
    /\ last_forward.hook = "predict_step"
    /\ last_exp # NoExperience
    /\ aux_updates > 0

\* C27: when the entry of a scope fails in its first copy, the scope unwinds
\* with the policy phase active and _exp_replayer what it was before, not
\* None.
C27_EntryFailureKeepsReplayer ==
    [][(pc = "driver" /\ pc' = "failed")
          => (/\ active_phase' = "policy"
              /\ exp_replayer' = exp_replayer
              /\ exp_replayer' # None)]_vars

====
